---------------------------- MODULE Spec2Model ----------------------------
(***************************************************************************)
(* Model of rrc_data_monitor.py: the CRC-8 checksum, the byte-at-a-time    *)
(* frame parser (RrcProtocolParser), the store of latest values            *)
(* (RobotDataStore), the dispatcher/decoders (DataPacketHandler), the      *)
(* ingest loop (RobotDataMonitor.read_data_loop), the monitor's lifecycle  *)
(* (run, start_monitoring, stop_monitoring) and the readers                *)
(* (RobotDataGUI.update_display, TerminalDisplay.display).                 *)
(*                                                                         *)
(* Representation of Python values:                                        *)
(*   bytes / bytearray / list   sequences of integers 0..255               *)
(*   None                       the integer None (= -1); time stamps are   *)
(*                              positive integers read from the clock now  *)
(*   an optional packet         the empty sequence (None) or <<packet>>    *)
(*   a float unpacked by 'f'    its 32-bit pattern as an integer (0 is 0.0)*)
(*   rps * 60                   [times60 |-> pattern of rps]               *)
(*   raw / 1000.0               [div1000 |-> raw]                          *)
(***************************************************************************)
EXTENDS Integers, Sequences, FiniteSets, TLC

VARIABLES
    parser,       \* RrcProtocolParser: state, function_code, data_length, data_buffer
    data_store,   \* RobotDataStore: the seven category records and stats
    now,          \* the value time.time() returns
    hist,         \* history: one entry per byte the ingest loop has consumed
    op,           \* history: the last operation performed and its input
    feed,         \* byte source script of the frame/noise/frame scenario
    writer,       \* ingest thread inside handle_packet: packet and position
    reader,       \* GUI thread inside update_display: position and values read
    committed,    \* history: the stores that existed between handle_packet calls
    life          \* RobotDataMonitor: running, serial_conn, read_thread and the
                  \* positions of the main thread and of the ingest thread

vars == <<parser, data_store, now, hist, op, feed, writer, reader, committed, life>>

(***************************************************************************)
(* Bounds of the model.                                                    *)
(***************************************************************************)
MaxStream == 7      \* bytes fed to the parser in Spec
MaxTime == 2        \* largest clock value
MaxNoise == 4       \* noise bytes between the two frames in SpecNoise
MaxFrames == 2      \* packets dispatched in SpecStore
MaxCalls == 2       \* handle_packet calls in SpecConc
MaxDispatch == 2    \* frames dispatched in SpecLatest
MaxCrcLen == 3      \* bytes passed to checksum_crc8 in SpecCrc
MaxKeyEvents == 2   \* key-event packets dispatched in SpecKey

None == -1

--------------------------------------------------------------------------
(***************************************************************************)
(* CRC-8                                                                   *)
(***************************************************************************)
crc8_table == <<
    0, 94, 188, 226, 97, 63, 221, 131, 194, 156, 126, 32, 163, 253, 31, 65,
    157, 195, 33, 127, 252, 162, 64, 30, 95, 1, 227, 189, 62, 96, 130, 220,
    35, 125, 159, 193, 66, 28, 254, 160, 225, 191, 93, 3, 128, 222, 60, 98,
    190, 224, 2, 92, 223, 129, 99, 61, 124, 34, 192, 158, 29, 67, 161, 255,
    70, 24, 250, 164, 39, 121, 155, 197, 132, 218, 56, 102, 229, 187, 89, 7,
    219, 133, 103, 57, 186, 228, 6, 88, 25, 71, 165, 251, 120, 38, 196, 154,
    101, 59, 217, 135, 4, 90, 184, 230, 167, 249, 27, 69, 198, 152, 122, 36,
    248, 166, 68, 26, 153, 199, 37, 123, 58, 100, 134, 216, 91, 5, 231, 185,
    140, 210, 48, 110, 237, 179, 81, 15, 78, 16, 242, 172, 47, 113, 147, 205,
    17, 79, 173, 243, 112, 46, 204, 146, 211, 141, 111, 49, 178, 236, 14, 80,
    175, 241, 19, 77, 206, 144, 114, 44, 109, 51, 209, 143, 12, 82, 176, 238,
    50, 108, 142, 208, 83, 13, 239, 177, 240, 174, 76, 18, 145, 207, 45, 115,
    202, 148, 118, 40, 171, 245, 23, 73, 8, 86, 180, 234, 105, 55, 213, 139,
    87, 9, 235, 181, 54, 104, 138, 212, 149, 203, 41, 119, 244, 170, 72, 22,
    233, 183, 85, 11, 136, 214, 52, 106, 43, 117, 151, 201, 74, 20, 246, 168,
    116, 42, 200, 150, 21, 75, 169, 247, 182, 232, 10, 84, 215, 137, 107, 53 >>

\* a ^ b on n-bit operands
RECURSIVE XorBits(_, _, _)
XorBits(a, b, n) ==
    IF n = 0 THEN 0
    ELSE (((a % 2) + (b % 2)) % 2) + 2 * XorBits(a \div 2, b \div 2, n - 1)

Xor(a, b) == XorBits(a, b, 8)

\* the loop of checksum_crc8 from position i on, with accumulator check
RECURSIVE CrcFold(_, _, _)
CrcFold(data, i, check) ==
    IF i > Len(data) THEN check
    ELSE CrcFold(data, i + 1, crc8_table[Xor(check, data[i]) + 1])

\* checksum_crc8 with the accumulator starting from 0xFF
CRC_starts_from_ff(data) == CrcFold(data, 1, 255) % 256

checksum_crc8(data) == CrcFold(data, 1, 0) % 256

--------------------------------------------------------------------------
(***************************************************************************)
(* RrcProtocolParser                                                       *)
(***************************************************************************)
WAIT_HEADER_1 == "WAIT_HEADER_1"
WAIT_HEADER_2 == "WAIT_HEADER_2"
WAIT_FUNCTION == "WAIT_FUNCTION"
WAIT_LENGTH == "WAIT_LENGTH"
READ_DATA == "READ_DATA"
READ_CHECKSUM == "READ_CHECKSUM"

\* the fields _reset assigns
ResetParser ==
    [state |-> WAIT_HEADER_1, function_code |-> 0, data_length |-> 0,
     data_buffer |-> <<>>]

calculate_checksum(ps) ==
    checksum_crc8(<<ps.function_code, ps.data_length>> \o ps.data_buffer)

\* Each branch of parse_byte maps the parser ps, the byte and the clock t to
\* the parser afterwards and the value returned (<<>> is None).
OnWaitHeader1(ps, byte_in, t) ==
    [parser |-> IF byte_in = 170 THEN [ps EXCEPT !.state = WAIT_HEADER_2] ELSE ps,
     packet |-> <<>>]

\* WAIT_HEADER_2 comparing with the first header byte instead of the second
WH2_expects_first_header_byte(ps, byte_in, t) ==
    [parser |-> IF byte_in = 170 THEN [ps EXCEPT !.state = WAIT_FUNCTION]
                ELSE ResetParser,
     packet |-> <<>>]

OnWaitHeader2(ps, byte_in, t) ==
    [parser |-> IF byte_in = 85 THEN [ps EXCEPT !.state = WAIT_FUNCTION]
                ELSE ResetParser,
     packet |-> <<>>]

OnWaitFunction(ps, byte_in, t) ==
    [parser |-> [ps EXCEPT !.function_code = byte_in, !.state = WAIT_LENGTH],
     packet |-> <<>>]

\* WAIT_LENGTH going to READ_DATA for a zero length as well
LENGTH_zero_reads_data(ps, byte_in, t) ==
    [parser |-> [ps EXCEPT !.data_length = byte_in,
                           !.data_buffer = <<>>,
                           !.state = READ_DATA],
     packet |-> <<>>]

OnWaitLength(ps, byte_in, t) ==
    [parser |-> [ps EXCEPT !.data_length = byte_in,
                           !.data_buffer = <<>>,
                           !.state = IF byte_in = 0 THEN READ_CHECKSUM
                                    ELSE READ_DATA],
     packet |-> <<>>]

\* READ_DATA leaving for READ_CHECKSUM one byte early
READ_DATA_one_byte_short(ps, byte_in, t) ==
    LET buf == Append(ps.data_buffer, byte_in) IN
    [parser |-> [ps EXCEPT !.data_buffer = buf,
                           !.state = IF Len(buf) >= ps.data_length - 1
                                     THEN READ_CHECKSUM ELSE READ_DATA],
     packet |-> <<>>]

OnReadData(ps, byte_in, t) ==
    LET buf == Append(ps.data_buffer, byte_in) IN
    [parser |-> [ps EXCEPT !.data_buffer = buf,
                           !.state = IF Len(buf) = ps.data_length
                                     THEN READ_CHECKSUM ELSE READ_DATA],
     packet |-> <<>>]

\* READ_CHECKSUM returning the packet whatever the received checksum
READ_CHECKSUM_not_compared(ps, byte_in, t) ==
    [parser |-> ResetParser,
     packet |-> << [function_code |-> ps.function_code,
                    data_length |-> ps.data_length,
                    data |-> ps.data_buffer,
                    timestamp |-> t] >>]

\* READ_CHECKSUM going back to WAIT_HEADER_1 without clearing the fields
READ_CHECKSUM_keeps_fields(ps, byte_in, t) ==
    LET expected_checksum == calculate_checksum(ps) IN
    [parser |-> [ps EXCEPT !.state = WAIT_HEADER_1],
     packet |-> IF expected_checksum = byte_in
                THEN << [function_code |-> ps.function_code,
                         data_length |-> ps.data_length,
                         data |-> ps.data_buffer,
                         timestamp |-> t] >>
                ELSE <<>>]

OnReadChecksum(ps, byte_in, t) ==
    LET expected_checksum == calculate_checksum(ps) IN
    [parser |-> ResetParser,
     packet |-> IF expected_checksum = byte_in
                THEN << [function_code |-> ps.function_code,
                         data_length |-> ps.data_length,
                         data |-> ps.data_buffer,
                         timestamp |-> t] >>
                ELSE <<>>]

parse_byte(ps, byte_in, t) ==
    CASE ps.state = WAIT_HEADER_1 -> OnWaitHeader1(ps, byte_in, t)
      [] ps.state = WAIT_HEADER_2 -> OnWaitHeader2(ps, byte_in, t)
      [] ps.state = WAIT_FUNCTION -> OnWaitFunction(ps, byte_in, t)
      [] ps.state = WAIT_LENGTH -> OnWaitLength(ps, byte_in, t)
      [] ps.state = READ_DATA -> OnReadData(ps, byte_in, t)
      [] ps.state = READ_CHECKSUM -> OnReadChecksum(ps, byte_in, t)

--------------------------------------------------------------------------
(***************************************************************************)
(* struct.unpack conversions (little-endian)                               *)
(***************************************************************************)
U16LE(b0, b1) == b0 + 256 * b1

\* 'b', 'h', 'i': two's complement
I8(b0) == IF b0 >= 128 THEN b0 - 256 ELSE b0

I16LE(b0, b1) ==
    IF U16LE(b0, b1) >= 32768 THEN U16LE(b0, b1) - 65536 ELSE U16LE(b0, b1)

I32LE(b0, b1, b2, b3) == b0 + 256 * b1 + 65536 * b2 + 16777216 * I8(b3)

\* 'f': the float is represented by its bit pattern, read as a signed
\* 32-bit integer (0 is 0.0)
F32LE(b0, b1, b2, b3) == I32LE(b0, b1, b2, b3)

HexDigit == <<"0", "1", "2", "3", "4", "5", "6", "7",
              "8", "9", "A", "B", "C", "D", "E", "F">>

\* f"{n:02X}"
Hex02X(n) == HexDigit[(n \div 16) + 1] \o HexDigit[(n % 16) + 1]

--------------------------------------------------------------------------
(***************************************************************************)
(* RobotDataStore                                                          *)
(***************************************************************************)
DefaultMotor(i) == [id |-> i, counter |-> 0, rps |-> 0, rpm |-> [times60 |-> 0]]

\* reset_all_data that leaves the per-function-code counts in place
RESET_keeps_packet_counts(ds, t) ==
    [ds EXCEPT
        !.system_data = [battery_voltage |-> [div1000 |-> 0], last_update |-> None],
        !.encoder_data = [motor_0 |-> DefaultMotor(0), motor_1 |-> DefaultMotor(1),
                          motor_2 |-> DefaultMotor(2), motor_3 |-> DefaultMotor(3),
                          last_update |-> None],
        !.imu_data = [accel |-> [x |-> 0, y |-> 0, z |-> 0],
                      gyro |-> [x |-> 0, y |-> 0, z |-> 0],
                      last_update |-> None],
        !.gamepad_data = [buttons |-> 0, hat |-> 0,
                          left_stick |-> [x |-> 0, y |-> 0],
                          right_stick |-> [x |-> 0, y |-> 0],
                          last_update |-> None],
        !.key_data = [key_id |-> 0, event |-> 0, event_name |-> "",
                      last_update |-> None],
        !.sbus_data = [channels |-> [i \in 1..16 |-> 0], ch17 |-> 0, ch18 |-> 0,
                       signal_loss |-> FALSE, fail_safe |-> FALSE,
                       last_update |-> None],
        !.bus_servo_data = [servo_data |-> [i \in 1..7 |-> 0], last_update |-> None],
        !.stats = [total_packets |-> 0, valid_packets |-> 0, crc_errors |-> 0,
                   packet_counts |-> IF "packet_counts" \in DOMAIN ds.stats
                                     THEN ds.stats.packet_counts ELSE <<>>,
                   start_time |-> t]]

\* reset_all_data on store ds at clock value t: every attribute is assigned
reset_all_data(ds, t) ==
    [ds EXCEPT
        !.system_data = [battery_voltage |-> [div1000 |-> 0], last_update |-> None],
        !.encoder_data = [motor_0 |-> DefaultMotor(0), motor_1 |-> DefaultMotor(1),
                          motor_2 |-> DefaultMotor(2), motor_3 |-> DefaultMotor(3),
                          last_update |-> None],
        !.imu_data = [accel |-> [x |-> 0, y |-> 0, z |-> 0],
                      gyro |-> [x |-> 0, y |-> 0, z |-> 0],
                      last_update |-> None],
        !.gamepad_data = [buttons |-> 0, hat |-> 0,
                          left_stick |-> [x |-> 0, y |-> 0],
                          right_stick |-> [x |-> 0, y |-> 0],
                          last_update |-> None],
        !.key_data = [key_id |-> 0, event |-> 0, event_name |-> "",
                      last_update |-> None],
        !.sbus_data = [channels |-> [i \in 1..16 |-> 0], ch17 |-> 0, ch18 |-> 0,
                       signal_loss |-> FALSE, fail_safe |-> FALSE,
                       last_update |-> None],
        !.bus_servo_data = [servo_data |-> [i \in 1..7 |-> 0], last_update |-> None],
        !.stats = [total_packets |-> 0, valid_packets |-> 0, crc_errors |-> 0,
                   packet_counts |-> <<>>, start_time |-> t]]

\* an object whose attributes are not yet assigned (before __init__ runs)
BlankStore ==
    [system_data |-> <<>>, encoder_data |-> <<>>, imu_data |-> <<>>,
     gamepad_data |-> <<>>, key_data |-> <<>>, sbus_data |-> <<>>,
     bus_servo_data |-> <<>>, stats |-> <<>>]

\* RobotDataStore() constructed at clock value t
NewStore(t) == reset_all_data(BlankStore, t)

Categories ==
    {"system_data", "encoder_data", "imu_data", "gamepad_data", "key_data",
     "sbus_data", "bus_servo_data"}

Category(ds, c) ==
    CASE c = "system_data" -> ds.system_data
      [] c = "encoder_data" -> ds.encoder_data
      [] c = "imu_data" -> ds.imu_data
      [] c = "gamepad_data" -> ds.gamepad_data
      [] c = "key_data" -> ds.key_data
      [] c = "sbus_data" -> ds.sbus_data
      [] c = "bus_servo_data" -> ds.bus_servo_data

--------------------------------------------------------------------------
(***************************************************************************)
(* DataPacketHandler.  handle_packet is a sequence of writes to the store; *)
(* each decoder gives, for a payload, the writes it performs, in program   *)
(* order, and ApplyStep performs one write.                                *)
(***************************************************************************)
\* the event_names dictionary of _parse_key_event (names in English)
event_names ==
    [e \in {1, 2, 4, 8, 16, 32, 64, 128} |->
        CASE e = 1 -> "press"
          [] e = 2 -> "long-press"
          [] e = 4 -> "long-press-repeat"
          [] e = 8 -> "long-press-release"
          [] e = 16 -> "short-release"
          [] e = 32 -> "single-click"
          [] e = 64 -> "double-click"
          [] e = 128 -> "triple-click"]

\* the event name taken from the lowest bit that is set
EVENT_named_by_lowest_bit(event) ==
    IF event = 0 THEN "unknown(00)"
    ELSE event_names[CHOOSE e \in DOMAIN event_names :
                         /\ (event \div e) % 2 = 1
                         /\ event % e = 0]

\* event_names.get(event, f"unknown({event:02X})")
EventName(event) ==
    IF event \in DOMAIN event_names THEN event_names[event]
    ELSE "unknown(" \o Hex02X(event) \o ")"

\* the battery decoder without its sub-command test
SYSTEM_any_subcommand(data) ==
    IF Len(data) >= 3
    THEN <<"battery_voltage", "system_last_update">>
    ELSE <<>>

\* the battery decoder storing the voltage without its timestamp
SYSTEM_value_without_stamp(data) ==
    IF Len(data) >= 3 /\ data[1] = 4
    THEN <<"battery_voltage">>
    ELSE <<>>

parse_system_data(data) ==
    IF Len(data) >= 3 /\ data[1] = 4
    THEN <<"battery_voltage", "system_last_update">>
    ELSE <<>>

parse_key_event(data) ==
    IF Len(data) >= 2 THEN <<"key_update">> ELSE <<>>

parse_encoder_data(data) ==
    IF Len(data) = 37 /\ data[1] = 16
    THEN <<"motor_0", "motor_1", "motor_2", "motor_3", "encoder_last_update">>
    ELSE <<>>

parse_imu_data(data) ==
    IF Len(data) = 24 THEN <<"imu_update">> ELSE <<>>

parse_gamepad_data(data) ==
    IF Len(data) = 7 THEN <<"gamepad_update">> ELSE <<>>

\* _parse_sbus_data accepting any payload of at least 36 bytes
SBUS_accepts_longer(data) ==
    IF Len(data) >= 36 THEN <<"sbus_update">> ELSE <<>>

parse_sbus_data(data) ==
    IF Len(data) = 36 THEN <<"sbus_update">> ELSE <<>>

parse_bus_servo_info(data) ==
    IF Len(data) = 7 THEN <<"bus_servo_update">> ELSE <<>>

\* the chain with function code 0x09 sent to the gamepad decoder
ROUTE_code9_to_gamepad(packet) ==
    LET func_code == packet.function_code
        data == packet.data
    IN  CASE func_code = 0 -> parse_system_data(data)
          [] func_code = 6 -> parse_key_event(data)
          [] func_code = 7 -> parse_imu_data(data)
          [] func_code = 8 -> parse_bus_servo_info(data)
          [] func_code = 9 -> parse_gamepad_data(data)
          [] func_code = 10 -> parse_gamepad_data(data)
          [] func_code = 11 -> parse_encoder_data(data) \o parse_sbus_data(data)
          [] OTHER -> <<>>

\* the if/elif chain on func_code
Route(packet) ==
    LET func_code == packet.function_code
        data == packet.data
    IN  CASE func_code = 0 -> parse_system_data(data)
          [] func_code = 6 -> parse_key_event(data)
          [] func_code = 7 -> parse_imu_data(data)
          [] func_code = 8 -> parse_bus_servo_info(data)
          [] func_code = 9 -> parse_imu_data(data)
          [] func_code = 10 -> parse_gamepad_data(data)
          [] func_code = 11 -> parse_encoder_data(data) \o parse_sbus_data(data)
          [] OTHER -> <<>>

\* The length-mismatch lines the decoders print for a payload (the else
\* branches of their length tests): which routine, the length it expects
\* and the length received.  Only two decoders have such a branch.
diag_encoder_data(data) ==
    IF Len(data) = 37 THEN <<>>
    ELSE << [routine |-> "encoder_data", expected |-> 37, actual |-> Len(data)] >>

diag_imu_data(data) ==
    IF Len(data) = 24 THEN <<>>
    ELSE << [routine |-> "imu_data", expected |-> 24, actual |-> Len(data)] >>

\* the length-mismatch lines handle_packet(packet) prints: the if/elif chain
\* on func_code, with the decoders that print nothing left out
LengthDiagnostics(packet) ==
    LET func_code == packet.function_code
        data == packet.data
    IN  CASE func_code = 7 -> diag_imu_data(data)
          [] func_code = 9 -> diag_imu_data(data)
          [] func_code = 11 -> diag_encoder_data(data)
          [] OTHER -> <<>>

\* the statistics written after the decoders instead of before them
STEPS_route_first(packet) ==
    Route(packet)
        \o <<"total_packets", "valid_packets", "packet_counts_init",
             "packet_counts_incr">>

\* the writes of handle_packet(packet), in program order
HandlerSteps(packet) ==
    <<"total_packets", "valid_packets", "packet_counts_init", "packet_counts_incr">>
        \o Route(packet)

\* the motor block of motor_idx: struct.unpack('<Bif', data[offset:offset+9])
MotorBlock(data, motor_idx) ==
    LET offset == 1 + motor_idx * 9
        rps == F32LE(data[offset + 6], data[offset + 7],
                     data[offset + 8], data[offset + 9])
    IN  [id |-> data[offset + 1],
         counter |-> I32LE(data[offset + 2], data[offset + 3],
                           data[offset + 4], data[offset + 5]),
         rps |-> rps,
         rpm |-> [times60 |-> rps]]

\* values[k] of struct.unpack('<6f', data)
ImuValue(data, k) ==
    F32LE(data[4 * k + 1], data[4 * k + 2], data[4 * k + 3], data[4 * k + 4])

\* one write of handle_packet(packet) to store ds
ApplyStep(ds, packet, step) ==
    LET func_code == packet.function_code
        data == packet.data
        timestamp == packet.timestamp
    IN  CASE step = "total_packets" ->
              [ds EXCEPT !.stats.total_packets = @ + 1]
          [] step = "valid_packets" ->
              [ds EXCEPT !.stats.valid_packets = @ + 1]
          [] step = "packet_counts_init" ->
              IF func_code \in DOMAIN ds.stats.packet_counts THEN ds
              ELSE [ds EXCEPT !.stats.packet_counts = @ @@ (func_code :> 0)]
          [] step = "packet_counts_incr" ->
              [ds EXCEPT !.stats.packet_counts[func_code] = @ + 1]
          [] step = "battery_voltage" ->
              [ds EXCEPT !.system_data.battery_voltage =
                             [div1000 |-> U16LE(data[2], data[3])]]
          [] step = "system_last_update" ->
              [ds EXCEPT !.system_data.last_update = timestamp]
          [] step = "key_update" ->
              [ds EXCEPT !.key_data =
                  [key_id |-> data[1], event |-> data[2],
                   event_name |-> EventName(data[2]), last_update |-> timestamp]]
          [] step = "motor_0" ->
              [ds EXCEPT !.encoder_data.motor_0 = MotorBlock(data, 0)]
          [] step = "motor_1" ->
              [ds EXCEPT !.encoder_data.motor_1 = MotorBlock(data, 1)]
          [] step = "motor_2" ->
              [ds EXCEPT !.encoder_data.motor_2 = MotorBlock(data, 2)]
          [] step = "motor_3" ->
              [ds EXCEPT !.encoder_data.motor_3 = MotorBlock(data, 3)]
          [] step = "encoder_last_update" ->
              [ds EXCEPT !.encoder_data.last_update = timestamp]
          [] step = "imu_update" ->
              [ds EXCEPT !.imu_data =
                  [accel |-> [x |-> ImuValue(data, 0), y |-> ImuValue(data, 1),
                              z |-> ImuValue(data, 2)],
                   gyro |-> [x |-> ImuValue(data, 3), y |-> ImuValue(data, 4),
                             z |-> ImuValue(data, 5)],
                   last_update |-> timestamp]]
          [] step = "gamepad_update" ->
              [ds EXCEPT !.gamepad_data =
                  [buttons |-> U16LE(data[1], data[2]), hat |-> data[3],
                   left_stick |-> [x |-> I8(data[4]), y |-> I8(data[5])],
                   right_stick |-> [x |-> I8(data[6]), y |-> I8(data[7])],
                   last_update |-> timestamp]]
          [] step = "sbus_update" ->
              [ds EXCEPT !.sbus_data =
                  [channels |-> [i \in 1..16 |-> I16LE(data[2 * i - 1], data[2 * i])],
                   ch17 |-> data[33], ch18 |-> data[34],
                   signal_loss |-> data[35] # 0, fail_safe |-> data[36] # 0,
                   last_update |-> timestamp]]
          [] step = "bus_servo_update" ->
              [ds EXCEPT !.bus_servo_data =
                  [servo_data |-> data, last_update |-> timestamp]]

\* the writes steps[i..] of handle_packet(packet) applied to ds
RECURSIVE RunSteps(_, _, _, _)
RunSteps(ds, packet, steps, i) ==
    IF i > Len(steps) THEN ds
    ELSE RunSteps(ApplyStep(ds, packet, steps[i]), packet, steps, i + 1)

\* handle_packet that keeps a key record already present
HANDLE_keeps_first_key_event(ds, packet) ==
    IF packet.function_code = 6 /\ ds.key_data.last_update # None
    THEN RunSteps(ds, packet, SubSeq(HandlerSteps(packet), 1, 4), 1)
    ELSE RunSteps(ds, packet, HandlerSteps(packet), 1)

\* handle_packet run to completion
handle_packet(ds, packet) == RunSteps(ds, packet, HandlerSteps(packet), 1)

--------------------------------------------------------------------------
(***************************************************************************)
(* RobotDataMonitor: one iteration of read_data_loop that obtains a byte   *)
(***************************************************************************)
\* an ingest step that counts a checksum mismatch in stats.crc_errors
INGEST_counts_crc_errors(ps, ds, byte_in, t) ==
    LET r == parse_byte(ps, byte_in, t) IN
    [parser |-> r.parser,
     packet |-> r.packet,
     data_store |-> IF r.packet # <<>> THEN handle_packet(ds, r.packet[1])
                    ELSE IF ps.state = READ_CHECKSUM
                         THEN [ds EXCEPT !.stats.crc_errors = @ + 1]
                         ELSE ds]

\* parse_byte, then handle_packet when a packet is returned
IngestByte(ps, ds, byte_in, t) ==
    LET r == parse_byte(ps, byte_in, t) IN
    [parser |-> r.parser,
     packet |-> r.packet,
     data_store |-> IF r.packet # <<>> THEN handle_packet(ds, r.packet[1]) ELSE ds]

\* the wire form of a frame: AA 55 function_code length payload checksum
Encode(func_code, data) ==
    <<170, 85, func_code, Len(data)>> \o data
        \o <<checksum_crc8(<<func_code, Len(data)>> \o data)>>

--------------------------------------------------------------------------
(***************************************************************************)
(* Inputs                                                                  *)
(***************************************************************************)
\* byte values the byte source delivers: the two header bytes, zero, a length
\* and the key-event function code
ByteAlphabet == {0, 2, 6, 85, 170}

\* A sender also delivers the checksum that closes the frame being read.
InputBytes(ps) ==
    ByteAlphabet
        \cup (IF ps.state = READ_CHECKSUM THEN {calculate_checksum(ps)} ELSE {})

\* well-formed frames of the frame/noise/frame scenario
ScenarioFrames ==
    { [function_code |-> 6, data |-> <<5, 32>>],
      [function_code |-> 0, data |-> <<4, 16, 39>>],
      [function_code |-> 12, data |-> <<>>] }

Idle == [pc |-> 0, packet |-> <<>>, pre |-> <<>>]
NotReading == [pc |-> 0, obs |-> <<>>]
NoFeed == [phase |-> "off", pending |-> <<>>, f1 |-> <<>>, f2 |-> <<>>, noise |-> 0]

\* the attributes RobotDataMonitor.__init__ assigns (serial_conn, running,
\* read_thread, use_gui, TerminalDisplay.last_display_time), the position of
\* the main thread in run() and of the ingest thread in read_data_loop, and
\* history of what the two threads have done
NewMonitor(use_gui) ==
    [running |-> FALSE, serial_conn |-> "None", read_thread |-> "None",
     use_gui |-> use_gui, last_display_time |-> 0,
     main |-> "start_monitoring", mpc |-> 1, returned |-> "None",
     loop |-> "not_started",
     connected |-> "None", connects |-> 0, threads |-> 0, stopping |-> FALSE,
     join |-> "None", cause |-> "None", late_reads |-> 0]

\* the state after RobotDataMonitor.__init__, but for the monitor's own
\* attributes
InitCommon ==
    /\ now = 1
    /\ parser = ResetParser
    /\ data_store = NewStore(1)
    /\ hist = <<>>
    /\ op = [name |-> "init", packet |-> <<>>, n |-> 0]
    /\ writer = Idle
    /\ reader = NotReading
    /\ committed = {NewStore(1)}

\* the ingest loop consumes byte_in
Consume(byte_in) ==
    LET r == IngestByte(parser, data_store, byte_in, now) IN
    /\ parser' = r.parser
    /\ data_store' = r.data_store
    /\ hist' = Append(hist, [byte |-> byte_in, pre |-> parser.state,
                             packet |-> r.packet])
    /\ op' = [name |-> "byte", packet |-> r.packet,
              n |-> IF r.packet # <<>> THEN op.n + 1 ELSE op.n]
    /\ UNCHANGED <<writer, reader, committed>>

\* time passes
Tick ==
    /\ now < MaxTime
    /\ now' = now + 1
    /\ op' = [op EXCEPT !.name = "tick", !.packet = <<>>]
    /\ UNCHANGED <<parser, data_store, hist, feed, writer, reader, committed, life>>

--------------------------------------------------------------------------
(***************************************************************************)
(* Spec: the ingest loop on an arbitrary byte stream                       *)
(***************************************************************************)
Init ==
    /\ InitCommon
    /\ feed = NoFeed
    /\ life = NewMonitor(TRUE)

ReadByte ==
    /\ Len(hist) < MaxStream
    /\ \E byte_in \in InputBytes(parser) : Consume(byte_in)
    /\ UNCHANGED <<now, feed, life>>

Next == ReadByte \/ Tick

Spec == Init /\ [][Next]_vars

--------------------------------------------------------------------------
(***************************************************************************)
(* SpecNoise: a well-formed frame, noise bytes, a second well-formed frame *)
(***************************************************************************)
InitNoise ==
    /\ InitCommon
    /\ life = NewMonitor(TRUE)
    /\ \E f1 \in ScenarioFrames, f2 \in ScenarioFrames :
           feed = [phase |-> "F1", pending |-> Encode(f1.function_code, f1.data),
                   f1 |-> f1, f2 |-> f2, noise |-> 0]

\* the next byte of the frame being sent; the second frame starts after the noise
FrameByte ==
    /\ feed.phase \in {"F1", "noise", "F2"}
    /\ LET bytes == IF feed.phase = "noise"
                    THEN Encode(feed.f2.function_code, feed.f2.data)
                    ELSE feed.pending
           phase == IF feed.phase = "noise" THEN "F2" ELSE feed.phase
       IN  /\ Consume(Head(bytes))
           /\ feed' = [feed EXCEPT
                  !.pending = Tail(bytes),
                  !.phase = IF Tail(bytes) # <<>> THEN phase
                            ELSE IF phase = "F1" THEN "noise" ELSE "done"]
    /\ UNCHANGED <<now, life>>

NoiseByte ==
    /\ feed.phase = "noise"
    /\ feed.noise < MaxNoise
    /\ \E byte_in \in ByteAlphabet : Consume(byte_in)
    /\ feed' = [feed EXCEPT !.noise = @ + 1]
    /\ UNCHANGED <<now, life>>

NextNoise == FrameByte \/ NoiseByte

SpecNoise == InitNoise /\ [][NextNoise]_vars

--------------------------------------------------------------------------
(***************************************************************************)
(* SpecStore: packets handed to handle_packet, and store resets            *)
(***************************************************************************)
FuncCodes == {0, 6, 7, 8, 9, 10, 11, 12}

\* payload lengths tried with a function code: the length its decoder
\* expects, one less and one more, and a length another decoder expects
PayloadLengths(func_code) ==
    CASE func_code = 0 -> {0, 2, 3, 4}
      [] func_code = 6 -> {1, 2, 3}
      [] func_code = 7 -> {23, 24, 25}
      [] func_code = 8 -> {6, 7, 8}
      [] func_code = 9 -> {7, 24}
      [] func_code = 10 -> {6, 7, 8}
      [] func_code = 11 -> {35, 36, 37, 38}
      [] OTHER -> {0, 2}

\* first byte: the battery sub-command and the encoder sub-command
FirstBytes == {4, 16}

\* the other bytes: the single-click event code
FillBytes == {32}

Payload(n, first, fill) == [i \in 1..n |-> IF i = 1 THEN first ELSE fill]

Payloads(func_code) ==
    { Payload(n, first, fill) :
        n \in PayloadLengths(func_code), first \in FirstBytes, fill \in FillBytes }

\* the packet parse_byte returns at clock value t for a frame
Packet(func_code, data, t) ==
    [function_code |-> func_code, data_length |-> Len(data), data |-> data,
     timestamp |-> t]

HandlePacket ==
    /\ op.n < MaxFrames
    /\ \E func_code \in FuncCodes : \E data \in Payloads(func_code) :
           LET packet == Packet(func_code, data, now) IN
           /\ data_store' = handle_packet(data_store, packet)
           /\ op' = [name |-> "handle_packet", packet |-> <<packet>>, n |-> op.n + 1]
    /\ UNCHANGED <<parser, now, hist, feed, writer, reader, committed, life>>

ResetAllData ==
    /\ data_store' = reset_all_data(data_store, now)
    /\ op' = [op EXCEPT !.name = "reset", !.packet = <<>>]
    /\ UNCHANGED <<parser, now, hist, feed, writer, reader, committed, life>>

NextStore == HandlePacket \/ ResetAllData \/ Tick

SpecStore == Init /\ [][NextStore]_vars

--------------------------------------------------------------------------
(***************************************************************************)
(* SpecConc: the ingest thread inside handle_packet, one write at a time,  *)
(* while the GUI thread reads the store in update_display, one read at a   *)
(* time.  The interpreter switches threads between any two of them.        *)
(***************************************************************************)
ConcFrames ==
    { [function_code |-> 0, data |-> <<4, 16, 39>>],
      [function_code |-> 6, data |-> <<5, 32>>],
      [function_code |-> 7, data |-> <<0>>],
      [function_code |-> 11, data |-> Payload(37, 16, 1)],
      [function_code |-> 12, data |-> <<>>] }

\* handle_packet is entered and performs its first write
BeginPacket ==
    /\ writer.pc = 0
    /\ op.n < MaxCalls
    /\ \E f \in ConcFrames :
           LET packet == Packet(f.function_code, f.data, now) IN
           /\ data_store' = ApplyStep(data_store, packet, HandlerSteps(packet)[1])
           /\ writer' = [pc |-> 2, packet |-> <<packet>>, pre |-> <<data_store>>]
           /\ op' = [op EXCEPT !.name = "begin", !.packet = <<packet>>]
    /\ UNCHANGED <<parser, now, hist, feed, reader, committed, life>>

\* the next write of handle_packet; after the last one the call returns
WriterStep ==
    /\ writer.pc >= 2
    /\ LET packet == writer.packet[1]
           steps == HandlerSteps(packet)
           last == writer.pc = Len(steps)
       IN  /\ data_store' = ApplyStep(data_store, packet, steps[writer.pc])
           /\ writer' = [writer EXCEPT !.pc = IF last THEN 0 ELSE @ + 1]
           /\ committed' = IF last THEN committed \cup {data_store'} ELSE committed
           /\ op' = IF last
                    THEN [name |-> "handle_packet", packet |-> <<packet>>,
                          n |-> op.n + 1]
                    ELSE [op EXCEPT !.name = "write"]
    /\ UNCHANGED <<parser, now, hist, feed, reader, life>>

\* the reads of update_display, in program order
ReadSteps ==
    << "system.battery_voltage", "system.last_update",
       "key.key_id", "key.event_name", "key.last_update",
       "encoder.motor_0", "encoder.motor_1", "encoder.motor_2", "encoder.motor_3",
       "encoder.last_update",
       "imu.accel.x", "imu.gyro.x", "imu.accel.y", "imu.gyro.y",
       "imu.accel.z", "imu.gyro.z", "imu.last_update",
       "gamepad.buttons", "gamepad.hat", "gamepad.left_stick.x",
       "gamepad.left_stick.y", "gamepad.right_stick.x", "gamepad.right_stick.y",
       "sbus.channels.0", "sbus.channels.1", "sbus.channels.2", "sbus.channels.3",
       "sbus.signal_loss", "sbus.fail_safe",
       "stats.total_packets", "stats.valid_packets", "stats.crc_errors",
       "stats.start_time", "stats.packet_counts" >>

\* the value one read of update_display obtains from store ds
ReadField(ds, step) ==
    CASE step = "system.battery_voltage" -> ds.system_data.battery_voltage
      [] step = "system.last_update" -> ds.system_data.last_update
      [] step = "key.key_id" -> ds.key_data.key_id
      [] step = "key.event_name" -> ds.key_data.event_name
      [] step = "key.last_update" -> ds.key_data.last_update
      [] step = "encoder.motor_0" -> ds.encoder_data.motor_0
      [] step = "encoder.motor_1" -> ds.encoder_data.motor_1
      [] step = "encoder.motor_2" -> ds.encoder_data.motor_2
      [] step = "encoder.motor_3" -> ds.encoder_data.motor_3
      [] step = "encoder.last_update" -> ds.encoder_data.last_update
      [] step = "imu.accel.x" -> ds.imu_data.accel.x
      [] step = "imu.gyro.x" -> ds.imu_data.gyro.x
      [] step = "imu.accel.y" -> ds.imu_data.accel.y
      [] step = "imu.gyro.y" -> ds.imu_data.gyro.y
      [] step = "imu.accel.z" -> ds.imu_data.accel.z
      [] step = "imu.gyro.z" -> ds.imu_data.gyro.z
      [] step = "imu.last_update" -> ds.imu_data.last_update
      [] step = "gamepad.buttons" -> ds.gamepad_data.buttons
      [] step = "gamepad.hat" -> ds.gamepad_data.hat
      [] step = "gamepad.left_stick.x" -> ds.gamepad_data.left_stick.x
      [] step = "gamepad.left_stick.y" -> ds.gamepad_data.left_stick.y
      [] step = "gamepad.right_stick.x" -> ds.gamepad_data.right_stick.x
      [] step = "gamepad.right_stick.y" -> ds.gamepad_data.right_stick.y
      [] step = "sbus.channels.0" -> ds.sbus_data.channels[1]
      [] step = "sbus.channels.1" -> ds.sbus_data.channels[2]
      [] step = "sbus.channels.2" -> ds.sbus_data.channels[3]
      [] step = "sbus.channels.3" -> ds.sbus_data.channels[4]
      [] step = "sbus.signal_loss" -> ds.sbus_data.signal_loss
      [] step = "sbus.fail_safe" -> ds.sbus_data.fail_safe
      [] step = "stats.total_packets" -> ds.stats.total_packets
      [] step = "stats.valid_packets" -> ds.stats.valid_packets
      [] step = "stats.crc_errors" -> ds.stats.crc_errors
      [] step = "stats.start_time" -> ds.stats.start_time
      [] step = "stats.packet_counts" -> ds.stats.packet_counts

\* the next read of update_display (the first one when the timer has fired)
ReaderStep ==
    /\ reader.pc < Len(ReadSteps)
    /\ reader' = [pc |-> reader.pc + 1,
                  obs |-> Append(reader.obs,
                                 ReadField(data_store, ReadSteps[reader.pc + 1]))]
    /\ UNCHANGED <<parser, data_store, now, hist, op, feed, writer, committed, life>>

\* update_display has returned; update_timer schedules the next pass
UpdateTimer ==
    /\ reader.pc = Len(ReadSteps)
    /\ reader' = NotReading
    /\ UNCHANGED <<parser, data_store, now, hist, op, feed, writer, committed, life>>

NextConc == BeginPacket \/ WriterStep \/ ReaderStep \/ UpdateTimer

SpecConc == Init /\ [][NextConc]_vars

--------------------------------------------------------------------------
(***************************************************************************)
(* SpecLatest: checksum-valid frames dispatched one after another, with    *)
(* the sequence of dispatched packets kept in hist                         *)
(***************************************************************************)
\* the category record a write of handle_packet goes to ("stats" for the
\* counters)
StepCategory(step) ==
    CASE step \in {"battery_voltage", "system_last_update"} -> "system_data"
      [] step = "key_update" -> "key_data"
      [] step \in {"motor_0", "motor_1", "motor_2", "motor_3",
                   "encoder_last_update"} -> "encoder_data"
      [] step = "imu_update" -> "imu_data"
      [] step = "gamepad_update" -> "gamepad_data"
      [] step = "sbus_update" -> "sbus_data"
      [] step = "bus_servo_update" -> "bus_servo_data"
      [] OTHER -> "stats"

\* frames of every function code: payloads that decode, with two different
\* contents, and payloads that do not
LatestFrames ==
    { [function_code |-> 0, data |-> <<4, 16, 39>>],
      [function_code |-> 0, data |-> <<4, 32, 32>>],
      [function_code |-> 0, data |-> <<16, 32, 32>>],
      [function_code |-> 6, data |-> <<5, 32>>],
      [function_code |-> 6, data |-> <<4, 3>>],
      [function_code |-> 6, data |-> <<7>>],
      [function_code |-> 7, data |-> Payload(24, 4, 32)],
      [function_code |-> 7, data |-> Payload(23, 4, 32)],
      [function_code |-> 9, data |-> Payload(24, 16, 32)],
      [function_code |-> 8, data |-> Payload(7, 4, 32)],
      [function_code |-> 8, data |-> Payload(7, 16, 32)],
      [function_code |-> 10, data |-> Payload(7, 4, 32)],
      [function_code |-> 10, data |-> Payload(7, 16, 32)],
      [function_code |-> 10, data |-> Payload(6, 4, 32)],
      [function_code |-> 11, data |-> Payload(37, 16, 32)],
      [function_code |-> 11, data |-> Payload(37, 16, 1)],
      [function_code |-> 11, data |-> Payload(37, 4, 32)],
      [function_code |-> 11, data |-> Payload(36, 4, 32)],
      [function_code |-> 11, data |-> Payload(36, 16, 32)],
      [function_code |-> 12, data |-> <<>>] }

\* the ingest loop passes the packet of the next frame to handle_packet
DispatchFrame ==
    /\ Len(hist) < MaxDispatch
    /\ \E f \in LatestFrames :
           LET packet == Packet(f.function_code, f.data, now) IN
           /\ data_store' = handle_packet(data_store, packet)
           /\ hist' = Append(hist, [byte |-> None, pre |-> READ_CHECKSUM,
                                    packet |-> <<packet>>])
           /\ op' = [name |-> "handle_packet", packet |-> <<packet>>, n |-> op.n + 1]
    /\ UNCHANGED <<parser, now, feed, writer, reader, committed, life>>

NextLatest == DispatchFrame \/ Tick

SpecLatest == Init /\ [][NextLatest]_vars

--------------------------------------------------------------------------
(***************************************************************************)
(* SpecKey: key-event frames with every event code                         *)
(***************************************************************************)
\* key ids sent: the smallest, the one of the spec's example, the largest
KeyIds == {0, 5, 255}

\* handle_packet on a function-code 0x06 packet with a two-byte payload
KeyEventPacket ==
    /\ op.n < MaxKeyEvents
    /\ \E key_id \in KeyIds, event \in 0..255 :
           LET packet == Packet(6, <<key_id, event>>, now) IN
           /\ data_store' = handle_packet(data_store, packet)
           /\ op' = [name |-> "handle_packet", packet |-> <<packet>>, n |-> op.n + 1]
    /\ UNCHANGED <<parser, now, hist, feed, writer, reader, committed, life>>

NextKey == KeyEventPacket

SpecKey == Init /\ [][NextKey]_vars

--------------------------------------------------------------------------
(***************************************************************************)
(* SpecLife: RobotDataMonitor.run().  The main thread executes              *)
(* start_monitoring, then the GUI main loop (or the sleep loop of terminal *)
(* mode) until the user ends it, then stop_monitoring; the ingest thread   *)
(* executes read_data_loop.  Each thread advances one statement at a time. *)
(***************************************************************************)
\* the statements of start_monitoring and of stop_monitoring, in program order
start_monitoring ==
    <<"connect_serial", "set_running", "create_thread", "start_thread",
      "return_true">>

\* stop_monitoring closing the port before it clears the flag and joins
STOP_releases_first == <<"disconnect_serial", "clear_running", "join">>

stop_monitoring == <<"clear_running", "join", "disconnect_serial">>

MainSteps(proc) ==
    IF proc = "start_monitoring" THEN start_monitoring ELSE stop_monitoring

\* the main thread goes on to its next statement; run() ends after the last
\* statement of stop_monitoring
Advance(lf) ==
    IF lf.mpc < Len(MainSteps(lf.main)) THEN [lf EXCEPT !.mpc = @ + 1]
    ELSE [lf EXCEPT !.main = "done", !.mpc = 1]

\* connect_serial returned False and start_monitoring goes on regardless
CONNECT_failure_ignored(lf) == Advance(lf)

\* connect_serial returned False: start_monitoring returns False, run()
\* returns and its finally clause calls stop_monitoring
connect_failed(lf) ==
    [lf EXCEPT !.returned = "False", !.main = "stop_monitoring", !.mpc = 1]

\* one statement of the main thread; ok: serial.Serial() succeeded;
\* timed_out: join returned on its timeout
MainStatement(lf, step, ok, timed_out) ==
    CASE step = "connect_serial" ->
              IF ok
              THEN Advance([lf EXCEPT !.serial_conn = "open",
                                      !.connected = "True", !.connects = @ + 1])
              ELSE connect_failed([lf EXCEPT !.connected = "False",
                                             !.connects = @ + 1])
      [] step = "set_running" -> Advance([lf EXCEPT !.running = TRUE])
      [] step = "create_thread" -> Advance([lf EXCEPT !.read_thread = "created"])
      [] step = "start_thread" ->
              Advance([lf EXCEPT !.read_thread = "started", !.loop = "while",
                                 !.threads = @ + 1])
      [] step = "return_true" ->
              [lf EXCEPT !.returned = "True", !.main = "gui_run", !.mpc = 1]
      [] step = "clear_running" ->
              Advance([lf EXCEPT !.running = FALSE, !.stopping = TRUE])
      [] step = "join" ->
              Advance([lf EXCEPT !.join =
                  IF lf.read_thread = "None" THEN "skipped"
                  ELSE IF lf.loop = "exited" THEN "exited"
                  ELSE "timeout"])
      [] step = "disconnect_serial" ->
              Advance([lf EXCEPT !.serial_conn =
                  IF lf.serial_conn = "open" THEN "closed" ELSE @])

\* the byte source delivers two well-formed frames; the display is the GUI
\* or the terminal
InitLife ==
    /\ InitCommon
    /\ \E use_gui \in BOOLEAN : life = NewMonitor(use_gui)
    /\ \E f1 \in ScenarioFrames, f2 \in ScenarioFrames :
           feed = [phase |-> "F1",
                   pending |-> Encode(f1.function_code, f1.data)
                                   \o Encode(f2.function_code, f2.data),
                   f1 |-> f1, f2 |-> f2, noise |-> 0]

\* the main thread executes its next statement; join returns when the
\* thread has exited or when its timeout expires
MainStep ==
    /\ life.main \in {"start_monitoring", "stop_monitoring"}
    /\ \E ok \in BOOLEAN, timed_out \in BOOLEAN :
           LET step == MainSteps(life.main)[life.mpc] IN
           /\ step = "join" /\ life.read_thread # "None" /\ life.loop # "exited"
                  => timed_out
           /\ life' = MainStatement(life, step, ok, timed_out)
    /\ UNCHANGED <<parser, data_store, now, hist, op, feed, writer, reader,
                   committed>>

\* the user closes the window or presses Ctrl+C: run() reaches its finally
GuiClose ==
    /\ life.main = "gui_run"
    /\ life' = [life EXCEPT !.main = "stop_monitoring", !.mpc = 1]
    /\ UNCHANGED <<parser, data_store, now, hist, op, feed, writer, reader,
                   committed>>

\* the values one pass of update_display reads from store ds
Snapshot(ds) == [i \in 1..Len(ReadSteps) |-> ReadField(ds, ReadSteps[i])]

\* update_display writing the store
DISPLAY_clears_counters ==
    /\ life.main = "gui_run" /\ life.use_gui
    /\ reader' = [pc |-> 0, obs |-> Snapshot(data_store)]
    /\ data_store' = [data_store EXCEPT !.stats.total_packets = 0]
    /\ UNCHANGED <<parser, now, hist, op, feed, writer, committed, life>>

\* the GUI timer fires in the main loop: one pass of update_display
UpdateDisplay ==
    /\ life.main = "gui_run" /\ life.use_gui
    /\ reader' = [pc |-> 0, obs |-> Snapshot(data_store)]
    /\ UNCHANGED <<parser, data_store, now, hist, op, feed, writer, committed,
                   life>>

\* the reads of TerminalDisplay.display, in program order
TerminalReads ==
    << "system.battery_voltage",
       "encoder.motor_0", "encoder.motor_1", "encoder.motor_2", "encoder.motor_3",
       "imu.accel.x", "imu.accel.y", "imu.accel.z",
       "imu.gyro.x", "imu.gyro.y", "imu.gyro.z",
       "stats.start_time", "stats.total_packets", "stats.valid_packets",
       "stats.crc_errors" >>

\* the loop ignoring the flag
LOOP_ignores_flag(lf) == TRUE

\* the test of the while statement
loop_condition(lf) == lf.running

\* the ingest thread evaluates the while condition
LoopWhile ==
    /\ life.loop = "while"
    /\ life' = IF loop_condition(life) THEN [life EXCEPT !.loop = "read"]
               ELSE [life EXCEPT !.loop = "exited", !.cause = "flag"]
    /\ UNCHANGED <<parser, data_store, now, hist, op, feed, writer, reader,
                   committed>>

\* history: one more read call, counted once stop_monitoring has cleared the
\* flag (2 stands for two or more)
CountRead(lf) ==
    [lf EXCEPT !.late_reads = IF lf.stopping /\ @ < 2 THEN @ + 1 ELSE @]

\* serial_conn.read(1) returns a byte: parse_byte, handle_packet on a packet
\* and, in terminal mode, display
ReadReturnsByte ==
    /\ life.serial_conn = "open"
    /\ feed.pending # <<>>
    /\ LET byte_in == Head(feed.pending)
           r == IngestByte(parser, data_store, byte_in, now)
           shown == /\ r.packet # <<>>
                    /\ ~life.use_gui
                    /\ ~(now - life.last_display_time < 1)
       IN  /\ parser' = r.parser
           /\ data_store' = r.data_store
           /\ hist' = Append(hist, [byte |-> byte_in, pre |-> parser.state,
                                    packet |-> r.packet])
           /\ op' = [name |-> "byte", packet |-> r.packet,
                     n |-> IF r.packet # <<>> THEN op.n + 1 ELSE op.n]
           /\ feed' = [feed EXCEPT !.pending = Tail(feed.pending)]
           /\ reader' = IF shown
                        THEN [pc |-> 0,
                              obs |-> [i \in 1..Len(TerminalReads) |->
                                          ReadField(r.data_store, TerminalReads[i])]]
                        ELSE reader
           /\ life' = [CountRead(life) EXCEPT
                          !.loop = "while",
                          !.last_display_time = IF shown THEN now ELSE @]
    /\ UNCHANGED <<now, writer, committed>>

\* serial_conn.read(1) returns b'' on its timeout, or raises an exception
\* other than SerialException while the port is being closed: next iteration
ReadReturnsNothing ==
    /\ life' = [CountRead(life) EXCEPT !.loop = "while"]
    /\ UNCHANGED <<parser, data_store, now, hist, op, feed, writer, reader,
                   committed>>

\* serial_conn.read(1) raises SerialException (device lost, or port closed):
\* break
ReadFails ==
    /\ life' = [CountRead(life) EXCEPT !.loop = "exited", !.cause = "error"]
    /\ UNCHANGED <<parser, data_store, now, hist, op, feed, writer, reader,
                   committed>>

\* the ingest thread calls serial_conn.read(1) and processes what it returns
LoopRead ==
    /\ life.loop = "read"
    /\ \/ ReadFails
       \/ ReadReturnsNothing
       \/ ReadReturnsByte

NextLife ==
    MainStep \/ GuiClose \/ UpdateDisplay \/ LoopWhile \/ LoopRead

SpecLife == InitLife /\ [][NextLife]_vars

\* every read call returns and the ingest thread is scheduled fairly
SpecLifeFair == SpecLife /\ WF_vars(LoopWhile) /\ WF_vars(LoopRead)

--------------------------------------------------------------------------
(***************************************************************************)
(* History                                                                 *)
(***************************************************************************)
\* the bytes consumed so far
Stream == [i \in 1..Len(hist) |-> hist[i].byte]

\* the packets parse_byte has returned so far, in order
Emitted ==
    LET out == SelectSeq(hist, LAMBDA h : h.packet # <<>>)
    IN  [i \in 1..Len(out) |-> out[i].packet[1]]

\* s contains 0xAA immediately followed by 0x55
HasHeader(s) == \E i \in 1..(Len(s) - 1) : s[i] = 170 /\ s[i + 1] = 85

--------------------------------------------------------------------------
(***************************************************************************)
(* SpecCrc: checksum_crc8 applied to byte sequences grown one byte at a    *)
(* time; hist holds the sequence and op.n the checksum returned for it     *)
(***************************************************************************)
\* the first byte takes every value; the following bytes are the extremes
\* and the header bytes
CrcBytes(k) == IF k = 0 THEN 0..255 ELSE {0, 1, 85, 170, 255}

InitCrc ==
    /\ InitCommon
    /\ feed = NoFeed
    /\ life = NewMonitor(TRUE)

\* checksum_crc8 is called on the sequence extended by byte_in
ChecksumCall ==
    /\ Len(hist) < MaxCrcLen
    /\ \E byte_in \in CrcBytes(Len(hist)) :
           /\ hist' = Append(hist, [byte |-> byte_in, pre |-> parser.state,
                                    packet |-> <<>>])
           /\ op' = [name |-> "checksum_crc8", packet |-> <<>>,
                     n |-> checksum_crc8([i \in 1..Len(hist') |-> hist'[i].byte])]
    /\ UNCHANGED <<parser, data_store, now, feed, writer, reader, committed, life>>

NextCrc == ChecksumCall

SpecCrc == InitCrc /\ [][NextCrc]_vars

--------------------------------------------------------------------------
(***************************************************************************)
(* Claims about the checksum                                               *)
(***************************************************************************)
\* one shift of the reflected CRC-8 polynomial 0x8C (x^8 + x^5 + x^4 + 1)
ShiftRight(c) == IF c % 2 = 1 THEN Xor(c \div 2, 140) ELSE c \div 2

\* entry i of the 256-entry table: i shifted eight times
TableEntry(i) ==
    ShiftRight(ShiftRight(ShiftRight(ShiftRight(
        ShiftRight(ShiftRight(ShiftRight(ShiftRight(i))))))))

\* the left fold acc := table[acc XOR b] over the first n bytes of s,
\* starting from acc = 0
RECURSIVE TableFold(_, _)
TableFold(s, n) ==
    IF n = 0 THEN 0 ELSE TableEntry(Xor(TableFold(s, n - 1), s[n]))

\* C17: checksum_crc8 over any byte sequence equals the left fold
\* acc := table[acc XOR b] starting from acc = 0 with the 256-entry table
\* (entry b of crc8_table is checked when the sequence is the single byte
\* b); the checksum of the empty sequence is 0 and every result lies in
\* 0..255.
C17_ChecksumIsTableFold ==
    /\ Len(crc8_table) = 256
    /\ Len(Stream) = 1 => crc8_table[Stream[1] + 1] = TableEntry(Stream[1])
    /\ checksum_crc8(<<>>) = 0
    /\ op.name = "checksum_crc8" =>
           /\ op.n = TableFold(Stream, Len(Stream))
           /\ op.n \in 0..255

\* a checksum was returned for three bytes, the first above 0x7F
C17_Witness ==
    /\ op.name = "checksum_crc8"
    /\ Len(Stream) = 3
    /\ Stream[1] > 127
    /\ Stream[2] # Stream[3]
    /\ op.n # 0

--------------------------------------------------------------------------
(***************************************************************************)
(* Claims about the frame parser                                           *)
(***************************************************************************)
\* the packet as sent: function code and payload
Sent(f) == [function_code |-> f.function_code, data |-> f.data]

\* C1: a well-formed frame F1, then any noise bytes, then a well-formed
\* frame F2, fed to a fresh parser, make parse_byte return exactly two
\* packets over the whole stream, F1 first and F2 second.
C1_TwoFramesAcrossNoise ==
    feed.phase = "done" =>
        /\ Len(Emitted) = 2
        /\ Sent(Emitted[1]) = feed.f1
        /\ Sent(Emitted[2]) = feed.f2

\* the parser state after i bytes
StateAfter(i) ==
    IF i = Len(hist) THEN parser.state ELSE hist[i + 1].pre

\* C2: whenever the parser is hunting for a header (WAIT_HEADER_1 or
\* WAIT_HEADER_2), the next occurrence of 0xAA immediately followed by 0x55
\* is recognised: after that 0x55 the parser is in WAIT_FUNCTION.
C2_NextHeaderRecognised ==
    \A i \in 0..Len(hist) : \A j \in (i + 1)..(Len(hist) - 1) :
        ( /\ StateAfter(i) \in {WAIT_HEADER_1, WAIT_HEADER_2}
          /\ Stream[j] = 170 /\ Stream[j + 1] = 85
          /\ ~HasHeader(SubSeq(Stream, i + 1, j)) )
        => StateAfter(j + 1) = WAIT_FUNCTION

\* C3: on a byte sequence that nowhere contains 0xAA immediately followed
\* by 0x55, parse_byte returns no packet and the parser stays in
\* WAIT_HEADER_1 / WAIT_HEADER_2.
C3_NoHeaderNoFrame ==
    ~HasHeader(Stream) =>
        /\ \A i \in 1..Len(hist) : hist[i].packet = <<>>
        /\ parser.state \in {WAIT_HEADER_1, WAIT_HEADER_2}

C3_Witness ==
    /\ ~HasHeader(Stream)
    /\ Len(hist) >= 4
    /\ \E i \in 1..Len(hist) : hist[i].byte = 170 /\ i < Len(hist)
    /\ \E i \in 1..Len(hist) : hist[i].byte = 85

\* C4: every packet parse_byte returns has a payload of exactly data_length
\* bytes, and they are the data_length bytes that followed the length byte
\* in the stream.
C4_PayloadIsTheBytesAfterLength ==
    \A i \in 1..Len(hist) :
        hist[i].packet # <<>> =>
            LET p == hist[i].packet[1]
                n == p.data_length
            IN  /\ Len(p.data) = n
                /\ i - n - 1 >= 1
                /\ Stream[i - n - 1] = n
                /\ p.data = SubSeq(Stream, i - n, i - 1)

C4_Witness ==
    \E i \in 1..Len(hist) :
        /\ hist[i].packet # <<>>
        /\ hist[i].packet[1].data_length = 2
        /\ hist[i].packet[1].data # <<0, 0>>

C4_WitnessEmpty ==
    \E i \in 1..Len(hist) :
        hist[i].packet # <<>> /\ hist[i].packet[1].data_length = 0

\* the step consumes, in READ_CHECKSUM, a byte that differs from the CRC-8
\* of [function_code, data_length] ++ data_buffer
CrcMismatchStep ==
    /\ parser.state = READ_CHECKSUM
    /\ Len(hist') = Len(hist) + 1
    /\ hist'[Len(hist')].byte # calculate_checksum(parser)

\* C5: when the byte consumed in READ_CHECKSUM differs from the CRC-8, no
\* packet reaches handle_packet and the whole data store keeps its value.
C5_CrcMismatchLeavesStore ==
    [][CrcMismatchStep =>
          /\ hist'[Len(hist')].packet = <<>>
          /\ op'.n = op.n
          /\ data_store' = data_store]_vars

\* a checksum mismatch was consumed after a frame had changed the store
C5_Witness ==
    \E i \in 1..Len(hist) :
        /\ hist[i].pre = READ_CHECKSUM
        /\ hist[i].packet = <<>>
        /\ \E j \in 1..(i - 1) : hist[j].packet # <<>>
        /\ data_store.key_data.last_update # None

--------------------------------------------------------------------------
(***************************************************************************)
(* Claims about the dispatcher and the store                               *)
(***************************************************************************)
\* the payload length the claim gives for a function code's category
ExpectedLength ==
    { [function_code |-> 6, category |-> "key_data", length |-> 2],
      [function_code |-> 7, category |-> "imu_data", length |-> 24],
      [function_code |-> 9, category |-> "imu_data", length |-> 24],
      [function_code |-> 8, category |-> "bus_servo_data", length |-> 7],
      [function_code |-> 10, category |-> "gamepad_data", length |-> 7],
      [function_code |-> 11, category |-> "encoder_data", length |-> 37],
      [function_code |-> 11, category |-> "sbus_data", length |-> 36] }

\* C6: a checksum-valid frame whose payload length differs from the length
\* expected for its function code (0x06: 2; 0x07, 0x09: 24; 0x08: 7;
\* 0x0A: 7; 0x0B: 37 for encoders, 36 for the RC receiver) leaves that
\* category's record, last_update included, unchanged.
C6_LengthMismatchLeavesRecord ==
    [][op'.name = "handle_packet" =>
          \A e \in ExpectedLength :
              ( /\ op'.packet[1].function_code = e.function_code
                /\ Len(op'.packet[1].data) # e.length )
              => Category(data_store', e.category) = Category(data_store, e.category)
      ]_vars

\* the values update_display has read of the fields named prefix.*
ObsOf(prefix) ==
    { <<i, reader.obs[i]>> : i \in { j \in 1..Len(reader.obs) :
          SubSeq(ReadSteps[j], 1, Len(prefix)) = prefix } }

\* what a reader of store s would have read of those fields
ReadsOf(s, prefix) ==
    { <<i, ReadField(s, ReadSteps[i])>> : i \in { j \in 1..Len(ReadSteps) :
          SubSeq(ReadSteps[j], 1, Len(prefix)) = prefix } }

\* C7: a reader that reads the store while the ingest thread applies a
\* packet never observes a category record that mixes two updates: what one
\* pass of update_display has read of the battery, key, encoder or IMU
\* record, once it has read all of it, is the value that record had between
\* two handle_packet calls.
C7_ReaderSeesWholeRecords ==
    \A prefix \in {"system.", "key.", "encoder.", "imu."} :
        Cardinality(ObsOf(prefix)) = Cardinality(ReadsOf(data_store, prefix))
            => \E s \in committed : ObsOf(prefix) = ReadsOf(s, prefix)

\* the count handle_packet keeps for func_code in store ds (0 when absent)
CountOf(ds, func_code) ==
    IF func_code \in DOMAIN ds.stats.packet_counts
    THEN ds.stats.packet_counts[func_code] ELSE 0

\* the three counters of ds are those of pre, each plus one
CountersPlusOne(pre, ds, func_code) ==
    /\ ds.stats.total_packets = pre.stats.total_packets + 1
    /\ ds.stats.valid_packets = pre.stats.valid_packets + 1
    /\ func_code \in DOMAIN ds.stats.packet_counts
    /\ CountOf(ds, func_code) = CountOf(pre, func_code) + 1

\* C8: for every packet passed to handle_packet, whatever its function code
\* and whether or not its payload decodes, total_packets, valid_packets and
\* packet_counts[function_code] each increase by exactly 1, and they have
\* done so before any category record is written.
C8_CountersFirst ==
    /\ (writer.pc # 0 /\ \E c \in Categories :
            Category(data_store, c) # Category(writer.pre[1], c))
        => CountersPlusOne(writer.pre[1], data_store,
                           writer.packet[1].function_code)
    /\ (writer.pc = 0 /\ writer.packet # <<>>)
        => CountersPlusOne(writer.pre[1], data_store,
                           writer.packet[1].function_code)

\* the second call has written part of a record; the first did not decode
C8_Witness ==
    /\ writer.pc # 0
    /\ op.n = 1
    /\ writer.pre[1].stats.packet_counts # <<>>
    /\ data_store.encoder_data.motor_0 # writer.pre[1].encoder_data.motor_0
    /\ data_store.encoder_data.last_update = None

\* C9: a store reset performed after store creation leaves stats.start_time
\* equal to the value it was given at store creation.
C9_ResetKeepsStartTime ==
    [][op'.name = "reset" =>
          data_store'.stats.start_time = data_store.stats.start_time]_vars

\* the records and counters as the claim describes them after a reset, with
\* motor i given the id idOf[i]
AfterReset(ds, idOf) ==
    /\ ds.system_data = [battery_voltage |-> [div1000 |-> 0], last_update |-> None]
    /\ \A i \in 0..3 :
           LET m == CASE i = 0 -> ds.encoder_data.motor_0
                      [] i = 1 -> ds.encoder_data.motor_1
                      [] i = 2 -> ds.encoder_data.motor_2
                      [] i = 3 -> ds.encoder_data.motor_3
           IN  m = [id |-> idOf[i], counter |-> 0, rps |-> 0,
                    rpm |-> [times60 |-> 0]]
    /\ ds.encoder_data.last_update = None
    /\ ds.imu_data = [accel |-> [x |-> 0, y |-> 0, z |-> 0],
                      gyro |-> [x |-> 0, y |-> 0, z |-> 0],
                      last_update |-> None]
    /\ ds.gamepad_data = [buttons |-> 0, hat |-> 0,
                          left_stick |-> [x |-> 0, y |-> 0],
                          right_stick |-> [x |-> 0, y |-> 0],
                          last_update |-> None]
    /\ ds.key_data = [key_id |-> 0, event |-> 0, event_name |-> "",
                      last_update |-> None]
    /\ ds.sbus_data = [channels |-> <<0, 0, 0, 0, 0, 0, 0, 0, 0, 0, 0, 0, 0, 0, 0, 0>>,
                       ch17 |-> 0, ch18 |-> 0, signal_loss |-> FALSE,
                       fail_safe |-> FALSE, last_update |-> None]
    /\ ds.bus_servo_data = [servo_data |-> <<0, 0, 0, 0, 0, 0, 0>>,
                            last_update |-> None]
    /\ ds.stats.total_packets = 0
    /\ ds.stats.valid_packets = 0
    /\ ds.stats.crc_errors = 0
    /\ DOMAIN ds.stats.packet_counts = {}

\* C10 as stated: after a store reset every category record has all numeric
\* fields zero, flags false, event_name empty and last_update unset, and
\* total_packets, valid_packets, crc_errors are 0 with an empty count map.
C10_ResetAllZero ==
    op.name = "reset" => AfterReset(data_store, [i \in 0..3 |-> 0])

\* C10 amended: as above, except that the id of encoder motor i is i.
C10_ResetRestoresDefaults ==
    op.name = "reset" => AfterReset(data_store, [i \in 0..3 |-> i])

\* a reset after two packets were dispatched
C10_Witness ==
    /\ op.name = "reset"
    /\ op.n = 2

\* packet has a write to category c among the writes of its decoder
Decodes(packet, c) ==
    \E i \in 1..Len(Route(packet)) : StepCategory(Route(packet)[i]) = c

\* the record of category c that the decoder's writes for packet produce
\* from the default record
DecodeOf(packet, c) ==
    Category(RunSteps(NewStore(1), packet, Route(packet), 1), c)

\* the positions of the dispatched packets that decoded for category c
DecodedAt(c) == { i \in 1..Len(Emitted) : Decodes(Emitted[i], c) }

\* the last position in a non-empty set of positions
Latest(S) == CHOOSE i \in S : \A j \in S : j <= i

\* C11: after any sequence of checksum-valid frames dispatched in stream
\* order, each category's record equals the decode of the most recent frame
\* that decoded for that category (its last_update being that frame's
\* timestamp), or the default record if there was none; the store holds one
\* record per category and nothing else besides the statistics.
C11_LatestDecodeWins ==
    /\ DOMAIN data_store = Categories \cup {"stats"}
    /\ \A c \in Categories :
           IF DecodedAt(c) = {}
           THEN Category(data_store, c) = Category(NewStore(1), c)
           ELSE LET p == Emitted[Latest(DecodedAt(c))] IN
                /\ Category(data_store, c) = DecodeOf(p, c)
                /\ Category(data_store, c).last_update = p.timestamp

\* two frames decoded for the same category with different contents at
\* different times, and another category never decoded
C11_Witness ==
    /\ Len(Emitted) >= 2
    /\ \E c \in Categories :
           /\ Decodes(Emitted[1], c) /\ Decodes(Emitted[2], c)
           /\ Emitted[1].data # Emitted[2].data
           /\ Emitted[1].timestamp # Emitted[2].timestamp
           /\ DecodeOf(Emitted[1], c) # DecodeOf(Emitted[2], c)
    /\ \E c \in Categories : DecodedAt(c) = {}

--------------------------------------------------------------------------
(***************************************************************************)
(* Claims about the lifecycle of the monitor                               *)
(***************************************************************************)
\* C12: if acquiring the byte source fails in start_monitoring, the call
\* returns False, no ingest thread is created, the running flag stays false,
\* no byte is ever read and no second attempt to connect is made.
C12_FailedStartStaysIdle ==
    life.connected = "False" =>
        /\ life.returned = "False"
        /\ life.read_thread = "None" /\ life.threads = 0
        /\ life.loop = "not_started"
        /\ ~life.running
        /\ hist = <<>> /\ life.late_reads = 0
        /\ life.connects = 1
        /\ life.serial_conn = "None"

\* the connection failed and run() has gone through stop_monitoring
C12_Witness ==
    /\ life.connected = "False"
    /\ life.main = "done"
    /\ life.join = "skipped"

\* C13: when a byte read fails with a byte-source error while the loop is
\* running, the ingest loop has exited (it reads no further byte), the
\* monitor is Stopped (its running flag is false) and no reconnection has
\* been attempted.
C13_ReadErrorStops ==
    life.cause = "error" =>
        /\ life.loop = "exited"
        /\ ~life.running
        /\ life.connects = 1

\* C14: stop_monitoring clears the running flag first, then waits for the
\* ingest thread to exit or for the join timeout, and only after that wait
\* has returned does it close the port: the wait and the close both happen
\* with the flag cleared, the wait reports "exited" only for a thread that
\* has left its loop, and the port is never closed while the flag is set.
C14_StopOrder ==
    /\ life.serial_conn = "closed" =>
           /\ ~life.running /\ life.stopping
           /\ life.join \in {"exited", "timeout"}
    /\ life.join # "None" => ~life.running /\ life.stopping
    /\ life.join = "exited" => life.loop = "exited"
    /\ life.main = "done" /\ life.connected = "True" =>
           life.serial_conn = "closed"

\* the port was closed after the join timed out on a thread still in its
\* loop
C14_Witness ==
    /\ life.serial_conn = "closed"
    /\ life.join = "timeout"
    /\ life.loop = "read"

\* C15: after stop_monitoring has cleared the running flag the ingest loop
\* starts at most one further byte read and, when every read call returns
\* and the thread is scheduled fairly, the loop eventually exits.
C15_CooperativeStop ==
    /\ [](life.late_reads <= 1)
    /\ (life.stopping /\ life.threads = 1) ~> (life.loop = "exited")

\* the flag was cleared between the while test and the read call: one more
\* read was started, then the loop saw the flag and exited
C15_Witness ==
    /\ life.stopping
    /\ life.late_reads = 1
    /\ life.loop = "exited"
    /\ life.cause = "flag"

\* C16: every step that changes the data store (category records or
\* statistics) or the parser is an iteration of the one ingest thread, not a
\* statement of the main thread; a pass of the GUI's update_display changes
\* neither, and the terminal display, called from the ingest loop, leaves
\* the store as handle_packet left it; only one ingest thread is ever
\* started.
C16_SingleWriter ==
    [][ /\ (data_store' # data_store \/ parser' # parser) =>
               /\ life.loop = "read" /\ life'.loop = "while"
               /\ life'.main = life.main /\ life'.mpc = life.mpc
               /\ life.threads = 1
        /\ (reader' # reader /\ life.use_gui) =>
               data_store' = data_store /\ parser' = parser
        /\ (reader' # reader /\ ~life.use_gui) =>
               data_store' = IngestByte(parser, data_store,
                                        hist'[Len(hist')].byte, now).data_store
        /\ life'.threads <= 1
      ]_vars

\* the GUI has displayed a store that two packets have changed
C16_Witness ==
    /\ life.use_gui
    /\ reader.obs = Snapshot(data_store)
    /\ data_store.stats.total_packets = 2
    /\ data_store.key_data.last_update # None

\* the terminal display has shown a store after a packet
C16_WitnessTerminal ==
    /\ ~life.use_gui
    /\ reader.obs # <<>>
    /\ data_store.stats.total_packets = 2

--------------------------------------------------------------------------
(***************************************************************************)
(* Claims about the decoders                                               *)
(***************************************************************************)
\* the event codes that have a name: one bit each
NamedEvents == {1, 2, 4, 8, 16, 32, 64, 128}

\* the eight names
NamedCategories ==
    {"press", "long-press", "long-press-repeat", "long-press-release",
     "short-release", "single-click", "double-click", "triple-click"}

\* C18: for a function-code 0x06 frame with a two-byte payload the key
\* record gets key_id = byte 0 and event = byte 1; the event name is one of
\* the eight names exactly when byte 1 is one of 0x01, 0x02, 0x04, 0x08,
\* 0x10, 0x20, 0x40, 0x80, 0x20 being single click (payload 05 20 gives
\* key_id 5, single click); every other byte 1, combinations of several
\* bits included, gives unknown(code) with the code in two hex digits.
C18_KeyEventDecode ==
    (op.name = "handle_packet" /\ op.packet[1].function_code = 6
        /\ Len(op.packet[1].data) = 2) =>
        LET data == op.packet[1].data
            key == data_store.key_data
        IN  /\ key.key_id = data[1]
            /\ key.event = data[2]
            /\ key.last_update = op.packet[1].timestamp
            /\ key.event_name \in NamedCategories <=> data[2] \in NamedEvents
            /\ data[2] = 32 <=> key.event_name = "single-click"
            /\ data[2] \notin NamedEvents =>
                   key.event_name = "unknown(" \o Hex02X(data[2]) \o ")"
            /\ \A e \in NamedEvents \ {data[2]} :
                   data[2] \in NamedEvents => event_names[e] # key.event_name

\* the event code 0x03 combines two named bits and has no name
C18_Witness ==
    /\ op.name = "handle_packet"
    /\ op.packet[1].data = <<5, 3>>
    /\ data_store.key_data.event_name = "unknown(03)"
    /\ op.n = 2

\* the example of the spec: payload 05 20
C18_WitnessSingleClick ==
    /\ op.name = "handle_packet"
    /\ op.packet[1].data = <<5, 32>>
    /\ data_store.key_data.key_id = 5
    /\ data_store.key_data.event_name = "single-click"

\* C19: for every byte consumed in READ_CHECKSUM a packet is returned if and
\* only if the byte equals the CRC-8 of [function_code, data_length] ++
\* data_buffer (the packet carrying those captured fields), and in both
\* outcomes the parser is afterwards in WAIT_HEADER_1 with function_code 0,
\* data_length 0 and an empty buffer; a byte consumed in any other state
\* returns no packet.
C19_ChecksumStateDecides ==
    [][Len(hist') = Len(hist) + 1 =>
          LET h == hist'[Len(hist')]
              covered == <<parser.function_code, parser.data_length>>
                             \o parser.data_buffer
          IN  IF parser.state = READ_CHECKSUM
              THEN /\ h.packet # <<>> <=> h.byte = TableFold(covered, Len(covered))
                   /\ h.packet # <<>> =>
                          /\ h.packet[1].function_code = parser.function_code
                          /\ h.packet[1].data_length = parser.data_length
                          /\ h.packet[1].data = parser.data_buffer
                   /\ parser' = [state |-> WAIT_HEADER_1, function_code |-> 0,
                                 data_length |-> 0, data_buffer |-> <<>>]
              ELSE h.packet = <<>>
      ]_vars

\* both outcomes have happened on one stream, the mismatch on a frame with a
\* payload
C19_Witness ==
    \E i, j \in 1..Len(hist) :
        /\ hist[i].pre = READ_CHECKSUM /\ hist[i].packet # <<>>
        /\ hist[j].pre = READ_CHECKSUM /\ hist[j].packet = <<>>
        /\ j >= 2 /\ hist[j - 1].pre = READ_DATA

\* C20: for every function-code 0x0B frame the encoder record changes only
\* when the payload is 37 bytes with sub-command byte 0x10 (and is then the
\* decode of that payload), the RC receiver record changes only when the
\* payload is 36 bytes (and is then stamped with the frame's time), no frame
\* changes both, and a 0x0B frame of any other shape changes neither.
C20_EncoderAndSbusExclusive ==
    [][(op'.name = "handle_packet" /\ op'.packet[1].function_code = 11) =>
          LET data == op'.packet[1].data
              t == op'.packet[1].timestamp
              encoder == Len(data) = 37 /\ data[1] = 16
              sbus == Len(data) = 36
              encoder_written == data_store'.encoder_data # data_store.encoder_data
              sbus_written == data_store'.sbus_data # data_store.sbus_data
          IN  /\ encoder_written => encoder
              /\ sbus_written => sbus
              /\ ~(encoder_written /\ sbus_written)
              /\ encoder =>
                     /\ data_store'.encoder_data.last_update = t
                     /\ data_store'.encoder_data.motor_0 = MotorBlock(data, 0)
                     /\ data_store'.encoder_data.motor_3 = MotorBlock(data, 3)
              /\ sbus =>
                     /\ data_store'.sbus_data.last_update = t
                     /\ data_store'.sbus_data.ch17 = data[33]
              /\ ~(encoder /\ sbus)
      ]_vars

\* a 36-byte 0x0B frame has set the RC receiver record and a 37-byte one
\* with sub-command 0x10 has then set the encoder record
C20_Witness ==
    /\ op.name = "handle_packet"
    /\ op.packet[1].function_code = 11
    /\ Len(op.packet[1].data) = 37
    /\ data_store.encoder_data.last_update # None
    /\ data_store.sbus_data.last_update # None
    /\ data_store.sbus_data.last_update # data_store.encoder_data.last_update

\* a 37-byte 0x0B frame whose sub-command is not 0x10 wrote neither record
C20_WitnessNeither ==
    /\ op.name = "handle_packet"
    /\ op.packet[1].function_code = 11
    /\ Len(op.packet[1].data) = 37
    /\ op.packet[1].data[1] = 4
    /\ data_store.encoder_data.last_update = None
    /\ data_store.sbus_data.last_update = None

\* C21: for every function code with a defined layout (0x06, 0x07, 0x08,
\* 0x09, 0x0A, 0x0B) the decode routine prints a length-mismatch line
\* whenever the payload length differs from its expected length, and a
\* frame for which a length-mismatch line is printed changes no category
\* record.
C21_LengthMismatchReported ==
    [][op'.name = "handle_packet" =>
          LET p == op'.packet[1]
              diags == LengthDiagnostics(p)
          IN  /\ \A e \in ExpectedLength :
                     ( /\ p.function_code = e.function_code
                       /\ Len(p.data) # e.length )
                     => \E i \in 1..Len(diags) :
                            /\ diags[i].routine = e.category
                            /\ diags[i].expected = e.length
                            /\ diags[i].actual = Len(p.data)
              /\ diags # <<>> =>
                     \A c \in Categories :
                         Category(data_store', c) = Category(data_store, c)
      ]_vars

\* the categories the claim maps to a function code
MappedCategories(func_code) ==
    CASE func_code = 0 -> {"system_data"}
      [] func_code = 6 -> {"key_data"}
      [] func_code = 7 -> {"imu_data"}
      [] func_code = 9 -> {"imu_data"}
      [] func_code = 8 -> {"bus_servo_data"}
      [] func_code = 10 -> {"gamepad_data"}
      [] func_code = 11 -> {"encoder_data", "sbus_data"}
      [] OTHER -> {}

\* C22: dispatching a frame with function code c changes at most the
\* category records mapped to c (and the statistics): every other
\* category's fields and last_update are unchanged, and a frame with an
\* unmapped function code changes no category record at all.
C22_OnlyMappedCategoriesChange ==
    [][op'.name = "handle_packet" =>
          \A c \in Categories \ MappedCategories(op'.packet[1].function_code) :
              Category(data_store', c) = Category(data_store, c)
      ]_vars

\* a 0x0B frame has written the RC receiver record and a frame with an
\* unmapped code was counted, while the IMU record is still untouched
C22_Witness ==
    /\ op.name = "handle_packet"
    /\ op.packet[1].function_code = 12
    /\ 11 \in DOMAIN data_store.stats.packet_counts
    /\ data_store.sbus_data.last_update # None
    /\ data_store.imu_data.last_update = None
    /\ data_store.stats.total_packets = 2

\* the writes of handle_packet that store value fields of a record, and
\* those that store its last_update (an update() call does both)
ValueSteps ==
    {"battery_voltage", "motor_0", "motor_1", "motor_2", "motor_3",
     "key_update", "imu_update", "gamepad_update", "sbus_update",
     "bus_servo_update"}

StampSteps ==
    {"system_last_update", "encoder_last_update",
     "key_update", "imu_update", "gamepad_update", "sbus_update",
     "bus_servo_update"}

\* the call for packet performs a write from the set S to category c
WritesTo(packet, c, S) ==
    \E i \in 1..Len(Route(packet)) :
        /\ Route(packet)[i] \in S
        /\ StepCategory(Route(packet)[i]) = c

\* a record without its last_update
ValueFields(rec) == [f \in DOMAIN rec \ {"last_update"} |-> rec[f]]

\* C23: for every category and every completed handle_packet call, the
\* call writes the category's last_update if and only if it writes the
\* category's value fields; a written last_update equals the timestamp of
\* the dispatched frame, and without a write neither the value fields nor
\* last_update change.
C23_StampIffValues ==
    [][op'.name = "handle_packet" =>
          LET p == op'.packet[1] IN
          \A c \in Categories :
              LET old == Category(data_store, c)
                  new == Category(data_store', c)
              IN  /\ WritesTo(p, c, StampSteps) <=> WritesTo(p, c, ValueSteps)
                  /\ WritesTo(p, c, StampSteps) => new.last_update = p.timestamp
                  /\ new.last_update # old.last_update
                         => /\ WritesTo(p, c, ValueSteps)
                            /\ new.last_update = p.timestamp
                  /\ ValueFields(new) # ValueFields(old)
                         => /\ WritesTo(p, c, StampSteps)
                            /\ new.last_update = p.timestamp
      ]_vars

\* the second call stored a battery voltage at time 2 over a record that the
\* first call had stored at time 1, and left the key record alone
C23_Witness ==
    /\ op.name = "handle_packet"
    /\ op.n = 2
    /\ op.packet[1].function_code = 0
    /\ op.packet[1].timestamp = 2
    /\ data_store.system_data.last_update = 2
    /\ data_store.system_data.battery_voltage # [div1000 |-> 0]
    /\ data_store.key_data.last_update = 1

\* C24: in every reachable state, after any mix of well-formed frames,
\* checksum-failed frames and noise, stats.crc_errors equals 0: the parser,
\* the dispatcher and the ingest loop never increment it.
C24_CrcErrorsStaysZero ==
    data_store.stats.crc_errors = 0

\* a frame was counted, then a checksum mismatch was consumed, and the
\* counters show the frame only
C24_Witness ==
    /\ data_store.stats.total_packets >= 1
    /\ data_store.stats.valid_packets = data_store.stats.total_packets
    /\ data_store.stats.crc_errors = 0
    /\ \E i \in 2..Len(hist) :
           /\ hist[i].pre = READ_CHECKSUM
           /\ hist[i].packet = <<>>
           /\ hist[i - 1].pre \in {READ_DATA, WAIT_LENGTH}

\* C25: a function-code 0x00 frame writes the battery record only when the
\* payload has at least 3 bytes and byte 0 is sub-command 0x04; it then
\* stores the little-endian u16 of bytes 1-2, scaled to volts, with the
\* frame's timestamp.  With any other sub-command byte or a payload shorter
\* than 3 bytes the battery value and its last_update are unchanged.
C25_BatteryDecode ==
    [][(op'.name = "handle_packet" /\ op'.packet[1].function_code = 0) =>
          LET p == op'.packet[1]
              data == p.data
          IN  IF Len(data) >= 3 /\ data[1] = 4
              THEN data_store'.system_data =
                       [battery_voltage |-> [div1000 |-> data[2] + 256 * data[3]],
                        last_update |-> p.timestamp]
              ELSE data_store'.system_data = data_store.system_data
      ]_vars

\* a 4-byte payload with sub-command 0x04 stored 0x2020 millivolts at the
\* frame's time
C25_Witness ==
    /\ op.name = "handle_packet"
    /\ op.packet[1].function_code = 0
    /\ Len(op.packet[1].data) = 4
    /\ op.packet[1].data[1] = 4
    /\ data_store.system_data.battery_voltage = [div1000 |-> 8224]
    /\ data_store.system_data.last_update = op.packet[1].timestamp

\* a 0x00 frame with sub-command 0x10 arrived after a voltage was stored and
\* the stored voltage and its time are still there
C25_WitnessOtherSubcommand ==
    /\ op.name = "handle_packet"
    /\ op.packet[1].function_code = 0
    /\ Len(op.packet[1].data) >= 3
    /\ op.packet[1].data[1] = 16
    /\ op.packet[1].timestamp = 2
    /\ data_store.system_data.battery_voltage = [div1000 |-> 8224]
    /\ data_store.system_data.last_update = 1

\* C26: the ingest thread never calls serial_conn.read(1) after
\* stop_monitoring has closed the port: whenever the port is closed the read
\* loop has already exited, the case of a timed-out join included.
C26_NoReadAfterClose ==
    /\ [](life.serial_conn = "closed" => life.loop \in {"not_started", "exited"})
    /\ [][life.serial_conn = "closed" => ~(life.loop = "read" /\ life'.loop # "read")]_vars

\* C27: in every reachable parser state the payload buffer holds at most
\* data_length bytes and data_length is at most 255; in READ_DATA the buffer
\* holds fewer than data_length bytes and data_length is at least 1; in
\* READ_CHECKSUM it holds exactly data_length bytes; in WAIT_HEADER_1,
\* WAIT_HEADER_2 and WAIT_FUNCTION the buffer is empty and function_code and
\* data_length are 0.
C27_ParserShape ==
    /\ Len(parser.data_buffer) <= parser.data_length
    /\ parser.data_length <= 255
    /\ parser.state = READ_DATA =>
           /\ Len(parser.data_buffer) < parser.data_length
           /\ parser.data_length >= 1
    /\ parser.state = READ_CHECKSUM =>
           Len(parser.data_buffer) = parser.data_length
    /\ parser.state \in {WAIT_HEADER_1, WAIT_HEADER_2, WAIT_FUNCTION} =>
           /\ parser.data_buffer = <<>>
           /\ parser.function_code = 0
           /\ parser.data_length = 0

\* a two-byte payload is complete and its checksum is awaited
C27_Witness ==
    /\ parser.state = READ_CHECKSUM
    /\ parser.data_length = 2
    /\ Len(parser.data_buffer) = 2
    /\ parser.function_code # 0

\* after a checksum byte was consumed the parser has seen a new first
\* header byte and its fields are cleared
C27_WitnessReset ==
    /\ parser.state = WAIT_HEADER_2
    /\ \E i \in 1..Len(hist) : hist[i].pre = READ_CHECKSUM
    /\ parser.function_code = 0

==========================================================================
